---- MODULE Spec2Model ----
(***************************************************************************)
(* Order ledger of the Veaza Plada back-office console (src/app_veaza.py): *)
(* the product store and its cached catalogue, order creation (tab         *)
(* "Ordenes") and payment registration (tab "Pagos").                      *)
(*                                                                         *)
(* Money is a Python float in the source.  Here every amount is an integer *)
(* number of thousandths of the currency unit (1 = 0.001), so that         *)
(* round(x, 2) is a real operation: Round2 maps an amount to the nearest   *)
(* multiple of 10.  The representation error of a double (below 1e-9 for   *)
(* the magnitudes involved) is under the resolution of the model; the      *)
(* inputs are chosen so that no reachable product or sum falls exactly on  *)
(* a half-cent, where the binary representation would decide the result.   *)
(*                                                                         *)
(* The collection "pagos" is a bag of documents: the source reads it only  *)
(* through filters and sums, never by position; _id, moneda, metodo and    *)
(* creado_en of a payment are written once and never read by the ledger,   *)
(* and are left out.                                                       *)
(*                                                                         *)
(* Spec, SpecPagos and SpecLibro run every interaction in one piece, one   *)
(* after the other.  SpecOrdenSesiones and SpecPagoSesiones run two        *)
(* browser sessions side by side, each handler cut at its accesses to the  *)
(* collections and to the shared cache; a pymongo call is one step         *)
(* (acknowledged writes, reads from the primary: the driver's defaults).   *)
(***************************************************************************)
EXTENDS Integers, Sequences, FiniteSets, Bags, TLC

(* ------------------------------ bounds -------------------------------- *)
MaxOrdenes == 2
MaxPagos == 3
MaxTime == 1
MaxItems == 2

(* --------------------------- input domains ---------------------------- *)
Productos == {"p1"}
Clientes == {"c1"}
\* None: the "— Selecciona —" entry of a selectbox (_opts, first_label)
Ninguno == "ninguno"
Cantidades == {1, 2}

\* texts typed into a text_input that is later given to float()
Num(n) == [kind |-> "num", val |-> n]
NoNum == [kind |-> "txt", val |-> 0]
Blanco == [kind |-> "blank", val |-> 0]

PreciosTexto == {Num(0), Num(12), Num(-20), NoNum, Blanco}
MontosTexto == {Num(-10), Num(10), Num(16), NoNum}
MonedasTexto == {"pen", " "}
EstadosPago == {"PENDIENTE", "APROBADO", "RECHAZADO", "REEMBOLSADO"}

VARIABLES productos, cache, ordenes, pagos, now, ui, ses

vars == <<productos, cache, ordenes, pagos, now, ui, ses>>

(* ----------------------------- utilities ------------------------------ *)
\* Python round(x, 2) on an amount in thousandths: nearest multiple of 10,
\* an exact half going to the even hundredth.
Round2(x) ==
    LET q == x \div 10
        r == x % 10
    IN  IF r < 5 THEN 10 * q
        ELSE IF r > 5 THEN 10 * (q + 1)
        ELSE IF q % 2 = 0 THEN 10 * q ELSE 10 * (q + 1)

\* float(x): defined on numeric text only (ValueError otherwise)
FloatOk(t) == t.kind = "num"
Float(t) == t.val

\* _safe_float: None for blank text, float(x) otherwise
SafeFloatRaises(t) == t.kind = "txt"

\* str.strip().upper() on the currency texts of the model
StripUpper(m) == IF m = "pen" THEN "PEN" ELSE ""

RECURSIVE SumSeq(_)
SumSeq(s) == IF s = <<>> THEN 0 ELSE Head(s) + SumSeq(Tail(s))

(* ------------------------- catalogue cache ---------------------------- *)
CacheVacio == [lleno |-> FALSE, prods |-> {}, precio_by_id |-> <<>>]

\* body of get_catalogos: the non-deleted products and their prices
Catalogo(prods) ==
    LET activos == {p \in Productos : ~prods[p].deleted}
    IN  [lleno |-> TRUE,
         prods |-> activos,
         precio_by_id |-> [p \in activos |-> prods[p].precio]]

\* @st.cache_data(ttl=60): the cached value when there is one
GetCatalogos == IF cache.lleno THEN cache ELSE Catalogo(productos)

\* st.cache_data.clear(); st.rerun(): the cache is emptied and the run that
\* follows at once calls get_catalogos again, on the store as written
ClearYRerun(prods) == Catalogo(prods)

(* ----------------------------- validators ----------------------------- *)
\* validar_producto, on the price (the other fields are kept valid)
ValidarProducto(t) ==
    IF t.kind = "blank" THEN "precio_obligatorio"
    ELSE IF Float(t) < 0 THEN "precio_negativo"
    ELSE "ok"

\* variant: the items are not looked at
ValidarOrdenSinItems(d) ==
    IF d.cliente_id = Ninguno THEN "cliente_id"
    ELSE IF d.canal_codigo = "" THEN "canal_codigo"
    ELSE IF d.moneda = "" THEN "moneda"
    ELSE "ok"

\* validar_orden: every required field truthy, items non-empty
ValidarOrden(d) ==
    IF d.cliente_id = Ninguno THEN "cliente_id"
    ELSE IF d.canal_codigo = "" THEN "canal_codigo"
    ELSE IF d.moneda = "" THEN "moneda"
    ELSE IF d.items = <<>> THEN "items"
    ELSE IF Len(d.items) = 0 THEN "items"
    ELSE "ok"

(* ------------------------------ sessions ------------------------------ *)
\* Streamlit runs the script of each browser session in a thread of its own;
\* ses[s] holds where the run of session s stands and its local variables.
\* The handlers of Spec and SpecPagos run a script in one piece, one
\* interaction after the other, and leave ses alone.
Sesiones == {"s1", "s2"}
Ociosa == [pc |-> "idle"]

(* ------------------------------- Init --------------------------------- *)
Init ==
    /\ productos = [p \in Productos |-> [precio |-> 20, deleted |-> FALSE]]
    /\ cache = CacheVacio
    /\ ordenes = <<>>
    /\ pagos = EmptyBag
    /\ now = 0
    /\ ui = [op |-> "init", out |-> "none"]
    /\ ses = [s \in Sesiones |-> Ociosa]

(* ------------------------ clock and cache ----------------------------- *)
Tick ==
    /\ now < MaxTime
    /\ now' = now + 1
    /\ UNCHANGED <<productos, cache, ordenes, pagos, ui, ses>>

\* the ttl of st.cache_data runs out
CacheExpira ==
    /\ cache.lleno
    /\ cache' = CacheVacio
    /\ UNCHANGED <<productos, ordenes, pagos, now, ui, ses>>

(* --------------------------- tab Productos ---------------------------- *)
\* prod_edit, "Guardar cambios"
ProdEdit(p, t) ==
    /\ ~productos[p].deleted
    /\ UNCHANGED <<ordenes, pagos, now, ses>>
    /\ IF SafeFloatRaises(t)
       THEN /\ ui' = [op |-> "prod_edit", out |-> "exception"]
            /\ cache' = GetCatalogos
            /\ UNCHANGED productos
       ELSE IF ValidarProducto(t) # "ok"
       THEN /\ ui' = [op |-> "prod_edit", out |-> ValidarProducto(t)]
            /\ cache' = GetCatalogos
            /\ UNCHANGED productos
       ELSE /\ productos' = [productos EXCEPT ![p].precio = Float(t)]
            /\ cache' = ClearYRerun(productos')
            /\ ui' = [op |-> "prod_edit", out |-> "success"]

\* prod_edit, "Eliminar": soft delete
ProdDelete(p) ==
    /\ ~productos[p].deleted
    /\ productos' = [productos EXCEPT ![p].deleted = TRUE]
    /\ cache' = ClearYRerun(productos')
    /\ ui' = [op |-> "prod_del", out |-> "success"]
    /\ UNCHANGED <<ordenes, pagos, now, ses>>

(* ---------------------------- tab Ordenes ----------------------------- *)
\* what the widgets of "Crear orden" can hold: a client or None, up to
\* MaxItems lines of (product or None, quantity >= 1), a currency text.
\* The number_input of the source keeps the number of lines >= 1; the empty
\* list is included because validar_orden guards it in the handler.
Selecciones(cat) ==
    UNION {[1..n -> [producto_id : cat.prods \cup {Ninguno}, cantidad : Cantidades]] :
           n \in 0..MaxItems}

\* one entry of o_items: the price comes from precio_by_id, 0.0 without product
Linea(cat, s) ==
    [producto_id |-> s.producto_id,
     cantidad |-> s.cantidad,
     precio |-> IF s.producto_id # Ninguno THEN cat.precio_by_id[s.producto_id] ELSE 0]

\* variant: the line subtotal is not rounded
SubtotalSinRedondeo(x) == x.precio * x.cantidad

\* x["subtotal"] = round(x["precio"] * x["cantidad"], 2)
Subtotal(x) == Round2(x.precio * x.cantidad)

ConSubtotal(x) ==
    [producto_id |-> x.producto_id, cantidad |-> x.cantidad,
     precio |-> x.precio, subtotal |-> Subtotal(x)]

\* total = round(sum(x["subtotal"] for x in o_items), 2)
Total(items) == Round2(SumSeq([i \in 1..Len(items) |-> items[i].subtotal]))

\* codigo = f"ORD-{utcnow:%Y%m%d%H%M%S}": the prefix and the clock's second
Codigo(t) == <<"ORD", t>>

\* the document the handler builds; total_pagado is absent (<<>>)
OrdenDoc(id, oc_val, m, items) ==
    [id |-> id,
     codigo |-> Codigo(now),
     cliente_id |-> oc_val,
     canal_codigo |-> "WEB",
     estado |-> "CREADA",
     items |-> items,
     moneda |-> StripUpper(m),
     total |-> Total(items),
     total_pagado |-> <<>>,
     creada_en |-> now,
     actualizada_en |-> now]

\* button "Crear orden" (o_create)
CrearOrden(oc_val, sel, m) ==
    LET cat == GetCatalogos
        o_items == [i \in 1..Len(sel) |-> Linea(cat, sel[i])]
        items == [i \in 1..Len(sel) |-> ConSubtotal(o_items[i])]
        doc == OrdenDoc(Len(ordenes) + 1, oc_val, m, items)
    IN  /\ UNCHANGED <<productos, pagos, now, ses>>
        /\ IF oc_val = Ninguno
           THEN /\ ui' = [op |-> "o_create", out |-> "error_cliente"]
                /\ cache' = cat
                /\ UNCHANGED ordenes
           ELSE IF \E i \in 1..Len(o_items) : o_items[i].producto_id = Ninguno
           THEN /\ ui' = [op |-> "o_create", out |-> "error_producto"]
                /\ cache' = cat
                /\ UNCHANGED ordenes
           ELSE IF ValidarOrden(doc) # "ok"
           THEN /\ ui' = [op |-> "o_create", out |-> ValidarOrden(doc)]
                /\ cache' = cat
                /\ UNCHANGED ordenes
           ELSE /\ Len(ordenes) < MaxOrdenes
                /\ ordenes' = Append(ordenes, doc)
                /\ cache' = ClearYRerun(productos)
                /\ ui' = [op |-> "o_create", out |-> "success"]

(* ----------------------------- tab Pagos ------------------------------ *)
\* the text of "Codigo de orden": 24 hex digits (an _id) or anything else
\* (a code); identities and codes that no order has are included
OrdInputs ==
    [kind : {"id"}, val : 1..(MaxOrdenes + 1)]
    \cup [kind : {"code"}, val : {Codigo(t) : t \in 0..MaxTime}]

\* variant: the code is matched on its prefix, as the search boxes do ($regex)
BuscarOrdenPorPrefijo(inp) ==
    IF inp.kind = "id"
    THEN {i \in 1..Len(ordenes) : ordenes[i].id = inp.val}
    ELSE {i \in 1..Len(ordenes) : ordenes[i].codigo[1] = inp.val[1]}

\* the orders find_one can return for the input
BuscarOrden(inp) ==
    IF inp.kind = "id"
    THEN {i \in 1..Len(ordenes) : ordenes[i].id = inp.val}
    ELSE {i \in 1..Len(ordenes) : ordenes[i].codigo = inp.val}

\* variant: the filter leaves out orden_id
PagoDupCualquierOrden(ps, oid, monto) ==
    \E d \in BagToSet(ps) : d.monto = monto /\ d.estado = "APROBADO"

\* pagos.find_one({orden_id, monto, estado: "APROBADO"})
PagoDup(ps, oid, monto) ==
    \E d \in BagToSet(ps) :
        d.orden_id = oid /\ d.monto = monto /\ d.estado = "APROBADO"

\* variant: the status of the new payment is not looked at
RechazadoSinEstado(ps, oid, monto, estado) == PagoDup(ps, oid, monto)

\* the guard of the insert: if pago_dup and estado == "APROBADO"
Rechazado(ps, oid, monto, estado) == PagoDup(ps, oid, monto) /\ estado = "APROBADO"

PagoDoc(current_order, monto, estado) ==
    [orden_id |-> current_order.id,
     monto |-> monto,
     estado |-> estado,
     transaccion_ref |-> <<"TRX", current_order.codigo>>]

\* variant: the payment replaces those the order already has
InsertOneReemplaza(ps, d) ==
    LET otros == {x \in BagToSet(ps) : x.orden_id # d.orden_id}
    IN  [x \in otros \cup {d} |-> IF x = d THEN 1 ELSE ps[x]]

\* pagos.insert_one(pago_doc)
InsertOne(ps, d) == ps (+) SetToBag({d})

\* variant: the order is updated after every insert
DebeActualizarSiempre(estado) == TRUE

\* if estado == "APROBADO": the order is updated
DebeActualizar(estado) == estado = "APROBADO"

\* variant: the filter leaves out estado
AprobadosTodos(ps, oid) ==
    [d \in {x \in BagToSet(ps) : x.orden_id = oid} |-> ps[d]]

\* aprobados = list(pagos.find({orden_id, estado: "APROBADO"}))
Aprobados(ps, oid) ==
    [d \in {x \in BagToSet(ps) : x.orden_id = oid /\ x.estado = "APROBADO"} |-> ps[d]]

\* sum(p["monto"] for p in docs)
RECURSIVE SumMontos(_)
SumMontos(b) ==
    IF DOMAIN b = {} THEN 0
    ELSE LET d == CHOOSE x \in DOMAIN b : TRUE
         IN  d.monto * b[d] + SumMontos([x \in DOMAIN b \ {d} |-> b[x]])

\* total_pagado = round(sum(p["monto"] for p in aprobados), 2)
TotalPagado(ps, oid) == Round2(SumMontos(Aprobados(ps, oid)))

\* variant: below the threshold the order goes back to CREADA
NuevoEstadoRevierte(total_pagado, current_order) ==
    IF total_pagado >= current_order.total THEN "PAGADA" ELSE "CREADA"

\* variant: the threshold is strict
NuevoEstadoEstricto(total_pagado, current_order) ==
    IF total_pagado > current_order.total THEN "PAGADA" ELSE current_order.estado

\* nuevo_estado
NuevoEstado(total_pagado, current_order) ==
    IF total_pagado >= current_order.total THEN "PAGADA" ELSE current_order.estado

\* variant: the update also sets the order's total to what was paid
ActualizaOrdenConTotal(o, total_pagado, nuevo_estado) ==
    [o EXCEPT !.total_pagado = <<total_pagado>>,
              !.total = total_pagado,
              !.estado = nuevo_estado,
              !.actualizada_en = now]

\* ordenes.update_one({_id}, {$set: {total_pagado, estado, actualizada_en}})
ActualizaOrden(o, total_pagado, nuevo_estado) ==
    [o EXCEPT !.total_pagado = <<total_pagado>>,
              !.estado = nuevo_estado,
              !.actualizada_en = now]

\* the tab run with a text that finds no order: the form is not shown
PagosSinOrden(inp) ==
    /\ BuscarOrden(inp) = {}
    /\ ui' = [op |-> "pago", out |-> "warning_no_encontrada"]
    /\ cache' = GetCatalogos
    /\ UNCHANGED <<productos, ordenes, pagos, now, ses>>

\* form pago_form, "Registrar pago", shown for the order the text finds
RegistrarPago(inp, t, e) ==
    /\ UNCHANGED <<productos, now, ses>>
    /\ \E i \in BuscarOrden(inp) :
          LET current_order == ordenes[i] IN
          IF ~FloatOk(t)
          THEN /\ ui' = [op |-> "pago", out |-> "exception"]
               /\ cache' = GetCatalogos
               /\ UNCHANGED <<ordenes, pagos>>
          ELSE IF Rechazado(pagos, current_order.id, Float(t), e)
          THEN /\ ui' = [op |-> "pago", out |-> "error_duplicado"]
               /\ cache' = GetCatalogos
               /\ UNCHANGED <<ordenes, pagos>>
          ELSE LET ps == InsertOne(pagos, PagoDoc(current_order, Float(t), e))
                   total_pagado == TotalPagado(ps, current_order.id)
                   nuevo_estado == NuevoEstado(total_pagado, current_order)
               IN  /\ ui' = [op |-> "pago", out |-> "success"]
                   /\ BagCardinality(pagos) < MaxPagos
                   /\ pagos' = ps
                   /\ IF DebeActualizar(e)
                      THEN ordenes' = [ordenes EXCEPT ![i] =
                               ActualizaOrden(ordenes[i], total_pagado, nuevo_estado)]
                      ELSE UNCHANGED ordenes
                   /\ cache' = ClearYRerun(productos)

(* ------------------------------- Next --------------------------------- *)
\* catalogue and order creation: every selection of up to MaxItems lines
Next ==
    \/ Tick
    \/ CacheExpira
    \/ \E p \in Productos, t \in PreciosTexto : ProdEdit(p, t)
    \/ \E p \in Productos : ProdDelete(p)
    \/ \E c \in Clientes \cup {Ninguno}, m \in MonedasTexto :
           \E sel \in Selecciones(GetCatalogos) : CrearOrden(c, sel, m)

Spec == Init /\ [][Next]_vars

\* payment registration on orders of one line of one unit, the catalogue
\* left as it is
SeleccionesPagos(cat) ==
    {<<[producto_id |-> p, cantidad |-> 1]>> : p \in cat.prods}

NextPagos ==
    \/ Tick
    \/ \E c \in Clientes : \E sel \in SeleccionesPagos(GetCatalogos) :
           CrearOrden(c, sel, "pen")
    \/ \E inp \in OrdInputs : PagosSinOrden(inp)
    \/ \E inp \in OrdInputs, t \in MontosTexto, e \in EstadosPago :
           RegistrarPago(inp, t, e)

SpecPagos == Init /\ [][NextPagos]_vars

\* the catalogue edited between the creation of one-line orders and the
\* registration of their payments
NextLibro ==
    \/ \E p \in Productos, t \in PreciosTexto : ProdEdit(p, t)
    \/ \E p \in Productos : ProdDelete(p)
    \/ \E c \in Clientes : \E sel \in SeleccionesPagos(GetCatalogos) :
           CrearOrden(c, sel, "pen")
    \/ \E inp \in OrdInputs, t \in MontosTexto, e \in EstadosPago :
           RegistrarPago(inp, t, e)

SpecLibro == Init /\ [][NextLibro]_vars

(* ------------------- sessions running side by side -------------------- *)
\* The steps below cut a script run at its accesses to what the sessions
\* share: the collections (one pymongo call each) and the cache of
\* get_catalogos, which st.cache_data keeps once for all sessions.

\* the run that follows st.rerun(): get_catalogos is called again
Rerun(s) ==
    /\ ses[s].pc = "rerun"
    /\ cache' = GetCatalogos
    /\ ses' = [ses EXCEPT ![s] = Ociosa]
    /\ UNCHANGED <<productos, ordenes, pagos, now, ui>>

\* "Crear orden" clicked in session s: the run calls get_catalogos, prices
\* the lines of the widgets and validates; insert_one is still to come
OrdenCorre(s, oc_val, sel, m) ==
    LET cat == GetCatalogos
        o_items == [i \in 1..Len(sel) |-> Linea(cat, sel[i])]
        items == [i \in 1..Len(sel) |-> ConSubtotal(o_items[i])]
        doc == OrdenDoc(0, oc_val, m, items)
    IN  /\ ses[s].pc = "idle"
        /\ cache' = cat
        /\ ses' = [ses EXCEPT ![s] =
               IF oc_val = Ninguno THEN [pc |-> "idle", out |-> "error_cliente"]
               ELSE IF \E i \in 1..Len(o_items) : o_items[i].producto_id = Ninguno
               THEN [pc |-> "idle", out |-> "error_producto"]
               ELSE IF ValidarOrden(doc) # "ok"
               THEN [pc |-> "idle", out |-> ValidarOrden(doc)]
               ELSE [pc |-> "o_insert", oc_val |-> oc_val, m |-> m, items |-> items]]
        /\ UNCHANGED <<productos, ordenes, pagos, now, ui>>

\* ordenes.insert_one(doc); st.cache_data.clear(); st.rerun()
OrdenInserta(s) ==
    /\ ses[s].pc = "o_insert"
    /\ Len(ordenes) < MaxOrdenes
    /\ ordenes' = Append(ordenes,
           OrdenDoc(Len(ordenes) + 1, ses[s].oc_val, ses[s].m,
                    ses[s].items))
    /\ cache' = CacheVacio
    /\ ses' = [ses EXCEPT ![s] = [pc |-> "rerun"]]
    /\ UNCHANGED <<productos, pagos, now, ui>>

\* "Guardar cambios" clicked in session s: the run calls get_catalogos,
\* validates and writes the product; the cache is not cleared yet
EditEscribe(s, p, t) ==
    /\ ses[s].pc = "idle"
    /\ ~productos[p].deleted
    /\ cache' = GetCatalogos
    /\ IF SafeFloatRaises(t)
       THEN /\ ses' = [ses EXCEPT ![s] = [pc |-> "idle", out |-> "exception"]]
            /\ UNCHANGED productos
       ELSE IF ValidarProducto(t) # "ok"
       THEN /\ ses' = [ses EXCEPT ![s] = [pc |-> "idle", out |-> ValidarProducto(t)]]
            /\ UNCHANGED productos
       ELSE /\ productos' = [productos EXCEPT ![p].precio = Float(t)]
            /\ ses' = [ses EXCEPT ![s] = [pc |-> "p_clear"]]
    /\ UNCHANGED <<ordenes, pagos, now, ui>>

\* st.cache_data.clear(); st.rerun() after the write of the product
EditLimpia(s) ==
    /\ ses[s].pc = "p_clear"
    /\ cache' = CacheVacio
    /\ ses' = [ses EXCEPT ![s] = [pc |-> "rerun"]]
    /\ UNCHANGED <<productos, ordenes, pagos, now, ui>>

\* one-line orders created in a session while another edits the price, the
\* ttl of the cache running
NextOrdenSesiones ==
    \/ CacheExpira
    \/ \E s \in Sesiones : Rerun(s)
    \/ \E s \in Sesiones, c \in Clientes \cup {Ninguno} :
           \E sel \in SeleccionesPagos(GetCatalogos) : OrdenCorre(s, c, sel, "pen")
    \/ \E s \in Sesiones : OrdenInserta(s)
    \/ \E s \in Sesiones, p \in Productos, t \in PreciosTexto : EditEscribe(s, p, t)
    \/ \E s \in Sesiones : EditLimpia(s)

SpecOrdenSesiones == Init /\ [][NextOrdenSesiones]_vars

(* ----------------- payment registration, step by step ----------------- *)
\* what a run of pago_form reads and writes: the two collections and the
\* locals of the sessions.  Each step is a function of it, so that a whole
\* schedule of steps is a value that can be computed.
Mundo == [ordenes |-> ordenes, pagos |-> pagos, ses |-> ses]

Pone(w) == ordenes' = w.ordenes /\ pagos' = w.pagos /\ ses' = w.ses

MontosSesiones == {Num(10), Num(16)}
EstadosSesiones == {"APROBADO", "PENDIENTE"}

\* "Registrar pago" submitted in session s: the run looks the order up
\* (find_one) and enters the handler with the texts of the form
PagoCorre(s, inp, t, e) ==
    /\ ses[s].pc = "idle"
    /\ \E i \in BuscarOrden(inp) :
          ses' = [ses EXCEPT ![s] =
                    [pc |-> "p_dup", current_order |-> ordenes[i], monto |-> t,
                     estado |-> e]]
    /\ cache' = GetCatalogos
    /\ UNCHANGED <<productos, ordenes, pagos, now, ui>>

\* pago_dup = pagos.find_one(...) and the guard
TrasDup(w, s) ==
    LET l == w.ses[s] IN
    [w EXCEPT !.ses[s] =
        IF ~FloatOk(l.monto) THEN [pc |-> "idle", out |-> "exception"]
        ELSE IF Rechazado(w.pagos, l.current_order.id, Float(l.monto), l.estado)
        THEN [pc |-> "idle", out |-> "error_duplicado"]
        ELSE [l EXCEPT !.pc = "p_insert"]]

\* pagos.insert_one(pago_doc)
TrasInsert(w, s) ==
    LET l == w.ses[s] IN
    [w EXCEPT !.pagos = InsertOne(w.pagos, PagoDoc(l.current_order, Float(l.monto), l.estado)),
              !.ses[s] = [l EXCEPT !.pc = IF DebeActualizar(l.estado)
                                          THEN "p_leer" ELSE "p_fin"]]

\* variant: the total is the order's stored total_pagado plus the new amount
TrasLeerContador(w, s) ==
    LET l == w.ses[s]
        antes == IF l.current_order.total_pagado = <<>> THEN 0
                 ELSE l.current_order.total_pagado[1]
        total_pagado == Round2(antes + Float(l.monto))
    IN  [w EXCEPT !.ses[s] =
            [pc |-> "p_update", current_order |-> l.current_order, monto |-> l.monto,
             estado |-> l.estado, total_pagado |-> total_pagado,
             nuevo_estado |-> NuevoEstado(total_pagado, l.current_order)]]

\* aprobados = list(pagos.find(...)); total_pagado; nuevo_estado
TrasLeer(w, s) ==
    LET l == w.ses[s]
        total_pagado == TotalPagado(w.pagos, l.current_order.id)
    IN  [w EXCEPT !.ses[s] =
            [pc |-> "p_update", current_order |-> l.current_order, monto |-> l.monto,
             estado |-> l.estado, total_pagado |-> total_pagado,
             nuevo_estado |-> NuevoEstado(total_pagado, l.current_order)]]

\* ordenes.update_one({_id: current_order["_id"]}, {$set: ...})
TrasUpdate(w, s) ==
    LET l == w.ses[s] IN
    [w EXCEPT !.ordenes =
                 [i \in 1..Len(w.ordenes) |->
                    IF w.ordenes[i].id = l.current_order.id
                    THEN ActualizaOrden(w.ordenes[i], l.total_pagado, l.nuevo_estado)
                    ELSE w.ordenes[i]],
              !.ses[s] = [l EXCEPT !.pc = "p_fin"]]

\* the step session s takes next in its handler, if it is in one
Paso(w, s) ==
    CASE w.ses[s].pc = "p_dup" -> TrasDup(w, s)
      [] w.ses[s].pc = "p_insert" -> TrasInsert(w, s)
      [] w.ses[s].pc = "p_leer" -> TrasLeer(w, s)
      [] w.ses[s].pc = "p_update" -> TrasUpdate(w, s)
      [] OTHER -> w

PagoDupPaso(s) ==
    /\ ses[s].pc = "p_dup"
    /\ Pone(TrasDup(Mundo, s))
    /\ UNCHANGED <<productos, cache, now, ui>>

PagoInserta(s) ==
    /\ ses[s].pc = "p_insert"
    /\ BagCardinality(pagos) < MaxPagos
    /\ Pone(TrasInsert(Mundo, s))
    /\ UNCHANGED <<productos, cache, now, ui>>

PagoLee(s) ==
    /\ ses[s].pc = "p_leer"
    /\ Pone(TrasLeer(Mundo, s))
    /\ UNCHANGED <<productos, cache, now, ui>>

PagoActualiza(s) ==
    /\ ses[s].pc = "p_update"
    /\ Pone(TrasUpdate(Mundo, s))
    /\ UNCHANGED <<productos, cache, now, ui>>

\* st.success; st.cache_data.clear(); st.rerun()
PagoTermina(s) ==
    /\ ses[s].pc = "p_fin"
    /\ cache' = CacheVacio
    /\ ses' = [ses EXCEPT ![s] = [pc |-> "rerun"]]
    /\ UNCHANGED <<productos, ordenes, pagos, now, ui>>

\* payments registered from two sessions on one-line orders
NextPagoSesiones ==
    \/ \E c \in Clientes : \E sel \in SeleccionesPagos(GetCatalogos) :
           CrearOrden(c, sel, "pen")
    \/ \E s \in Sesiones, inp \in OrdInputs, t \in MontosSesiones, e \in EstadosSesiones :
           PagoCorre(s, inp, t, e)
    \/ \E s \in Sesiones : PagoDupPaso(s)
    \/ \E s \in Sesiones : PagoInserta(s)
    \/ \E s \in Sesiones : PagoLee(s)
    \/ \E s \in Sesiones : PagoActualiza(s)
    \/ \E s \in Sesiones : PagoTermina(s)
    \/ \E s \in Sesiones : Rerun(s)

SpecPagoSesiones == Init /\ [][NextPagoSesiones]_vars

(* ====================================================================== *)
(* Properties.  The definitions below restate what the specification says  *)
(* in terms of the stored documents; of the operators of the handlers they *)
(* use Round2 only, and the actions themselves to name a step (C14, which  *)
(* speaks of the schedules of two handlers, runs their steps with Paso).   *)
(* ====================================================================== *)
IdsOrdenes == 1..Len(ordenes)

EsAprobadoDe(d, oid) == d.orden_id = oid /\ d.estado = "APROBADO"

AprobadosDe(ps, oid) == {d \in BagToSet(ps) : EsAprobadoDe(d, oid)}

\* sum of the amounts of the documents of S, each counted as often as ps holds it
RECURSIVE SumaSobre(_, _)
SumaSobre(S, ps) ==
    IF S = {} THEN 0
    ELSE LET d == CHOOSE x \in S : TRUE
         IN  d.monto * CopiesIn(d, ps) + SumaSobre(S \ {d}, ps)

SumaAprobados(ps, oid) == SumaSobre(AprobadosDe(ps, oid), ps)

NumAprobados(ps, oid) == Cardinality(AprobadosDe(ps, oid))

\* the step inserted the payment d and touched no other payment
Insertado(d) == pagos' = pagos (+) SetToBag({d})

\* the step persisted one approved payment of the order at position i
AprobadoPersistido(i) ==
    \E d \in BagToSet(pagos') : EsAprobadoDe(d, ordenes[i].id) /\ Insertado(d)

\* the orders the text of "Codigo de orden" designates
Designa(inp) ==
    {i \in IdsOrdenes :
        IF inp.kind = "id" THEN ordenes[i].id = inp.val ELSE ordenes[i].codigo = inp.val}

(* ---------------------------------------------------------------------- *)
\* C1 (as stated): after an APPROVED registration, the order is PAGADA when
\* the approved amounts sum to at least order.total, and keeps the status it
\* had when they sum to less.
C1_Original ==
    [][\A i \in IdsOrdenes :
          AprobadoPersistido(i) =>
              /\ (SumaAprobados(pagos', ordenes[i].id) >= ordenes[i].total
                    => ordenes'[i].estado = "PAGADA")
              /\ (SumaAprobados(pagos', ordenes[i].id) < ordenes[i].total
                    => ordenes'[i].estado = ordenes[i].estado)]_vars

\* C1 (amended): the threshold is taken on the sum rounded to 2 decimals:
\* after an APPROVED registration the order is PAGADA when the rounded sum of
\* the approved amounts is at least order.total, and keeps the status it had
\* when the rounded sum is less.
C1_PaidAtRoundedThreshold ==
    [][\A i \in IdsOrdenes :
          AprobadoPersistido(i) =>
              /\ (Round2(SumaAprobados(pagos', ordenes[i].id)) >= ordenes[i].total
                    => ordenes'[i].estado = "PAGADA")
              /\ (Round2(SumaAprobados(pagos', ordenes[i].id)) < ordenes[i].total
                    => ordenes'[i].estado = ordenes[i].estado)]_vars

\* two orders after approved registrations: one paid by two approved payments
\* that reach its total together, the other still CREADA with a partial one
C1_Witness ==
    /\ ui = [op |-> "pago", out |-> "success"]
    /\ \E i, j \in IdsOrdenes :
           /\ ordenes[i].estado = "PAGADA"
           /\ NumAprobados(pagos, ordenes[i].id) = 2
           /\ SumaAprobados(pagos, ordenes[i].id) >= ordenes[i].total
           /\ ordenes[j].estado = "CREADA"
           /\ NumAprobados(pagos, ordenes[j].id) = 1
           /\ ordenes[j].total_pagado # <<>>
           /\ ordenes[j].total_pagado[1] < ordenes[j].total

(* ---------------------------------------------------------------------- *)
\* C2: an order with approved payments stores as total_pagado the sum,
\* rounded to 2 decimals, of the amounts of its own approved payments.
C2_TotalPagadoIsApprovedSum ==
    \A i \in IdsOrdenes :
        NumAprobados(pagos, ordenes[i].id) > 0 =>
            ordenes[i].total_pagado = <<Round2(SumaAprobados(pagos, ordenes[i].id))>>

\* two approved payments of an order whose sum is rounded, and a third
\* payment of a positive amount that is not counted
C2_Witness ==
    /\ BagCardinality(pagos) = 3
    /\ \E i \in IdsOrdenes :
           /\ NumAprobados(pagos, ordenes[i].id) = 2
           /\ ordenes[i].total_pagado # <<SumaAprobados(pagos, ordenes[i].id)>>
           /\ \E d \in BagToSet(pagos) :
                  ~EsAprobadoDe(d, ordenes[i].id) /\ d.monto > 0

(* ---------------------------------------------------------------------- *)
\* C3: an APPROVED registration whose amount equals that of an approved
\* payment of the same order is rejected and changes neither the payments nor
\* the orders; one whose amount differs from all of them is persisted.
YaAprobado(i, monto) ==
    \E d \in AprobadosDe(pagos, ordenes[i].id) : d.monto = monto

C3_DuplicateGuard ==
    [][\A inp \in OrdInputs, t \in MontosTexto, i \in IdsOrdenes :
          (/\ ui'.op = "pago"
           /\ t.kind = "num"
           /\ Designa(inp) = {i}
           /\ RegistrarPago(inp, t, "APROBADO")) =>
              IF YaAprobado(i, t.val)
              THEN /\ pagos' = pagos
                   /\ ordenes' = ordenes
                   /\ ui'.out = "error_duplicado"
              ELSE /\ ui'.out = "success"
                   /\ \E d \in BagToSet(pagos') :
                          /\ Insertado(d)
                          /\ EsAprobadoDe(d, ordenes[i].id)
                          /\ d.monto = t.val]_vars

\* a duplicate was just rejected, at a later second than the order's last
\* modification, while the other order holds a payment of another status
C3_Witness ==
    /\ ui = [op |-> "pago", out |-> "error_duplicado"]
    /\ Len(ordenes) = 2
    /\ \E i \in IdsOrdenes :
           /\ NumAprobados(pagos, ordenes[i].id) >= 1
           /\ ordenes[i].actualizada_en < now
    /\ \E d \in BagToSet(pagos) : d.estado # "APROBADO"

(* ---------------------------------------------------------------------- *)
\* C5: a registration with a status other than APROBADO, on an order that
\* exists and with a numeric amount, inserts the payment and leaves every
\* order (total_pagado, estado, actualizada_en) as it was.
C5_NonApprovedFrame ==
    [][\A inp \in OrdInputs, t \in MontosTexto, e \in EstadosPago \ {"APROBADO"} :
          (/\ ui'.op = "pago"
           /\ t.kind = "num"
           /\ Designa(inp) # {}
           /\ RegistrarPago(inp, t, e)) =>
              /\ ordenes' = ordenes
              /\ \E d \in BagToSet(pagos') :
                     /\ Insertado(d)
                     /\ d.estado = e
                     /\ d.monto = t.val
                     /\ \E i \in Designa(inp) : d.orden_id = ordenes[i].id]_vars

\* a non-approved payment was just registered, at a later second, on an order
\* that already had an approved payment
C5_Witness ==
    /\ ui = [op |-> "pago", out |-> "success"]
    /\ \E i \in IdsOrdenes :
           /\ NumAprobados(pagos, ordenes[i].id) >= 1
           /\ ordenes[i].total_pagado # <<>>
           /\ ordenes[i].actualizada_en < now
           /\ \E d \in BagToSet(pagos) :
                  d.orden_id = ordenes[i].id /\ d.estado = "REEMBOLSADO"

(* ---------------------------------------------------------------------- *)
\* C6 (as stated): total_pagado never decreases from one state to the next,
\* and an order that is PAGADA stays PAGADA.
C6_Original ==
    [][\A i \in IdsOrdenes :
          /\ (ordenes[i].total_pagado # <<>> =>
                 /\ ordenes'[i].total_pagado # <<>>
                 /\ ordenes'[i].total_pagado[1] >= ordenes[i].total_pagado[1])
          /\ (ordenes[i].estado = "PAGADA" => ordenes'[i].estado = "PAGADA")]_vars

(* ---------------------------------------------------------------------- *)
\* C8 (as stated): a registration with a negative or non-numeric amount
\* inserts nothing, so every persisted payment has a positive amount.
C8_Original == \A d \in BagToSet(pagos) : d.monto > 0

(* ---------------------------------------------------------------------- *)
\* C9: a text that designates no order leads to no insertion and no change
\* of an order, whatever is done with it, and every payment refers to an
\* order of the store.
C9_OrderMustExist ==
    [][/\ \A inp \in OrdInputs :
              Designa(inp) = {} =>
                  /\ PagosSinOrden(inp) => (pagos' = pagos /\ ordenes' = ordenes)
                  /\ \A t \in MontosTexto, e \in EstadosPago : ~RegistrarPago(inp, t, e)
       /\ \A d \in BagToSet(pagos') :
              \E i \in 1..Len(ordenes') : ordenes'[i].id = d.orden_id]_vars

\* the lookup just failed in a store that holds orders and payments
C9_Witness ==
    /\ ui = [op |-> "pago", out |-> "warning_no_encontrada"]
    /\ Len(ordenes) >= 1
    /\ BagCardinality(pagos) >= 1

(* ---------------------------------------------------------------------- *)
RECURSIVE SumaSubtotales(_, _)
SumaSubtotales(items, n) ==
    IF n = 0 THEN 0 ELSE SumaSubtotales(items, n - 1) + items[n].subtotal

RECURSIVE SumaImportes(_, _)
SumaImportes(items, n) ==
    IF n = 0 THEN 0
    ELSE SumaImportes(items, n - 1) + items[n].cantidad * items[n].precio

\* C4: every stored order has at least one line, quantities >= 1 and prices
\* >= 0; each line's subtotal is round(cantidad * precio, 2) and the order's
\* total is round(sum of the line subtotals, 2).
C4_TotalIsRoundedSum ==
    \A i \in IdsOrdenes :
        LET o == ordenes[i] IN
        /\ Len(o.items) >= 1
        /\ \A k \in 1..Len(o.items) :
               /\ o.items[k].cantidad >= 1
               /\ o.items[k].precio >= 0
               /\ o.items[k].subtotal = Round2(o.items[k].cantidad * o.items[k].precio)
        /\ o.total = Round2(SumaSubtotales(o.items, Len(o.items)))

\* an order of two lines whose total differs from the rounded sum of the
\* unrounded amounts: the rounding of each line shows
C4_Witness ==
    \E i \in IdsOrdenes :
        LET o == ordenes[i] IN
        /\ Len(o.items) = 2
        /\ o.total > 0
        /\ o.total # Round2(SumaImportes(o.items, 2))

(* ---------------------------------------------------------------------- *)
EntradaInvalida(c, sel) ==
    \/ c = Ninguno
    \/ sel = <<>>
    \/ \E k \in 1..Len(sel) : sel[k].producto_id = Ninguno

ErroresOrden == {"error_cliente", "error_producto", "cliente_id", "canal_codigo",
                 "moneda", "items"}

\* C7: "Crear orden" without a client, with no line, or with a line without
\* product ends in an error message and leaves the orders as they were.
C7_InvalidOrderRejected ==
    [][\/ (ordenes' = ordenes /\ ui'.out \in ErroresOrden)
       \/ \A c \in Clientes \cup {Ninguno}, m \in MonedasTexto :
              \A sel \in Selecciones(GetCatalogos) :
                  ~(EntradaInvalida(c, sel) /\ CrearOrden(c, sel, m))]_vars

\* the empty list was just rejected by validar_orden, an order being stored
C7_Witness ==
    /\ ui = [op |-> "o_create", out |-> "items"]
    /\ Len(ordenes) >= 1

(* ---------------------------------------------------------------------- *)
\* C10 (as stated): no two stored orders have the same code.
C10_Original ==
    \A i, j \in IdsOrdenes : i # j => ordenes[i].codigo # ordenes[j].codigo

(* ---------------------------------------------------------------------- *)
\* C11: the payments are append-only: every step keeps each stored payment
\* as it is (none removed, none changed); a registration that reports success
\* adds exactly one payment and one that reports an error adds none.
C11_AppendOnly ==
    [][/\ pagos \sqsubseteq pagos'
       /\ \A inp \in OrdInputs, t \in MontosTexto, e \in EstadosPago :
              (/\ ui'.op = "pago"
               /\ now' = now
               /\ RegistrarPago(inp, t, e)) =>
                  IF ui'.out = "success"
                  THEN BagCardinality(pagos') = BagCardinality(pagos) + 1
                  ELSE pagos' = pagos]_vars

\* a duplicate was just rejected in a store of two payments of one order,
\* one of them not approved
C11_Witness ==
    /\ ui = [op |-> "pago", out |-> "error_duplicado"]
    /\ BagCardinality(pagos) = 2
    /\ \E d, x \in BagToSet(pagos) :
           d.orden_id = x.orden_id /\ d.estado = "APROBADO" /\ x.estado = "RECHAZADO"

MismoMonto(monto) == {d \in BagToSet(pagos) : d.monto = monto}

C16_GuardOnlyApprovedPairs ==
    [][\A inp \in OrdInputs, t \in MontosTexto, e \in EstadosPago, i \in IdsOrdenes :
          (/\ ui'.op = "pago"
           /\ now' = now
           /\ t.kind = "num"
           /\ MismoMonto(t.val) # {}
           /\ Designa(inp) = {i}
           /\ IF e = "APROBADO" THEN ~YaAprobado(i, t.val) ELSE YaAprobado(i, t.val)
           /\ RegistrarPago(inp, t, e)) =>
              /\ ui'.out = "success"
              /\ Insertado([orden_id |-> ordenes[i].id, monto |-> t.val, estado |-> e,
                            transaccion_ref |-> <<"TRX", ordenes[i].codigo>>])]_vars

\* the store holds, with one amount, an approved payment of one order, a
\* not approved payment of the same order and an approved payment of the
\* other order
C16_Witness ==
    /\ ui = [op |-> "pago", out |-> "success"]
    /\ \E a, b, c \in BagToSet(pagos) :
           /\ a.monto = b.monto /\ b.monto = c.monto
           /\ a.orden_id = b.orden_id /\ c.orden_id # a.orden_id
           /\ a.estado = "APROBADO" /\ b.estado # "APROBADO" /\ c.estado = "APROBADO"

(* ---------------------------------------------------------------------- *)
\* C18 (as stated): an order that is PAGADA has a total_pagado and it is at
\* least its total; an order without approved payments has no total_pagado
\* and is CREADA.
C18_Original ==
    \A i \in IdsOrdenes :
        /\ ordenes[i].estado = "PAGADA" =>
               /\ ordenes[i].total_pagado # <<>>
               /\ ordenes[i].total_pagado[1] >= ordenes[i].total
        /\ NumAprobados(pagos, ordenes[i].id) = 0 =>
               /\ ordenes[i].total_pagado = <<>>
               /\ ordenes[i].estado = "CREADA"

(* ---------------------------------------------------------------------- *)
\* C12: no step (a payment of any status, a price edit, a soft delete,
\* another order) changes the lines or the total of a stored order, and after
\* every step the total is still the sum of the line subtotals rounded to 2
\* decimals.
C12_OrderLinesFrozen ==
    [][\A i \in IdsOrdenes :
          /\ ordenes'[i].items = ordenes[i].items
          /\ ordenes'[i].total = ordenes[i].total
          /\ ordenes'[i].total =
                 Round2(SumaSubtotales(ordenes'[i].items, Len(ordenes'[i].items)))]_vars

\* a paid order whose product was given another price and then deleted, and
\* which also has a payment that is not approved
C12_Witness ==
    \E i \in IdsOrdenes : \E p \in Productos :
        /\ ordenes[i].items[1].producto_id = p
        /\ productos[p].deleted
        /\ productos[p].precio # ordenes[i].items[1].precio
        /\ ordenes[i].estado = "PAGADA"
        /\ \E d \in BagToSet(pagos) :
               d.orden_id = ordenes[i].id /\ d.estado # "APROBADO"

(* ---------------------------------------------------------------------- *)
\* C17 (as stated): when a session inserts an order, the price of every line
\* is the price the product store holds for its product at that moment,
\* whatever the other session has done to the prices in between.
C17_Original ==
    [][\A s \in Sesiones :
          OrdenInserta(s) =>
              LET o == ordenes'[Len(ordenes')] IN
              \A k \in 1..Len(o.items) :
                  o.items[k].precio = productos[o.items[k].producto_id].precio]_vars

(* ---------------------------------------------------------------------- *)
\* two sessions in pago_form on the same order
Computado(s) == ses[s].pc \in {"p_update", "p_fin"} /\ ses[s].estado = "APROBADO"

EnLaMismaOrden(P(_)) ==
    /\ \A s \in Sesiones : P(s)
    /\ \A s, r \in Sesiones : ses[s].current_order.id = ses[r].current_order.id

OrdenDe(s) == CHOOSE i \in IdsOrdenes : ordenes[i].id = ses[s].current_order.id

\* both calls APPROVED, with different amounts, each below the order's total
\* and together reaching it
DosParciales ==
    \A s, r \in Sesiones :
        /\ ses[s].estado = "APROBADO"
        /\ ses[s].monto.kind = "num"
        /\ ses[s].monto.val < ses[s].current_order.total
        /\ s # r => /\ ses[s].monto.val # ses[r].monto.val
                    /\ ses[s].monto.val + ses[r].monto.val >= ses[s].current_order.total

\* every order in which the two sessions can take the steps of their handlers
\* up to update_one
Horarios == [1..8 -> Sesiones]

RECURSIVE Corre(_, _, _)
Corre(w, h, k) == IF k \notin DOMAIN h THEN w ELSE Corre(Paso(w, h[k]), h, k + 1)

AmbosBajoUmbral(w) ==
    \A s \in Sesiones :
        /\ w.ses[s].pc \in {"p_update", "p_fin"}
        /\ w.ses[s].total_pagado < w.ses[s].current_order.total
        /\ w.ses[s].nuevo_estado # "PAGADA"

EnDup(s) == ses[s].pc = "p_dup"

\* C14 (as stated): when two sessions have entered pago_form on the same
\* order with two such partial approved payments, some schedule of their
\* steps leads both to compute a total_pagado below the order's total and to
\* keep the status.
C14_Original ==
    (EnLaMismaOrden(EnDup) /\ DosParciales /\ AprobadosDe(pagos, ses["s1"].current_order.id) = {})
        => \E h \in Horarios : AmbosBajoUmbral(Corre(Mundo, h, 1))

\* C14 (amended): of two sessions that have both computed total_pagado for
\* the same order, at least one has computed it from all the approved
\* payments of the order, and decided PAGADA if that sum reaches the total;
\* the interleaving in which the order nevertheless stays CREADA is the one of
\* the witness, where the other session's update is written last.
C14_LastReaderSeesBoth ==
    EnLaMismaOrden(Computado) =>
        LET oid == ses["s1"].current_order.id
            suma == Round2(SumaAprobados(pagos, oid))
        IN  /\ \E s \in Sesiones : ses[s].total_pagado = suma
            /\ suma >= ses["s1"].current_order.total =>
                   \E s \in Sesiones : ses[s].nuevo_estado = "PAGADA"

\* both sessions have written their update, for two partial payments that
\* reach the total together, and the order is CREADA with a total_pagado
\* below its total
C14_Witness ==
    /\ EnLaMismaOrden(LAMBDA s : ses[s].pc = "p_fin" /\ ses[s].estado = "APROBADO")
    /\ DosParciales
    /\ ordenes[OrdenDe("s1")].estado = "CREADA"
    /\ ordenes[OrdenDe("s1")].total_pagado[1] < ordenes[OrdenDe("s1")].total
    /\ SumaAprobados(pagos, ses["s1"].current_order.id) >= ordenes[OrdenDe("s1")].total

(* ---------------------------------------------------------------------- *)
\* C15 (as stated): once two concurrent approved registrations on the same
\* order have both written their update, the order's total_pagado is the sum
\* (rounded to 2 decimals, as the code stores it) of all its approved
\* payments, and the order is PAGADA when that sum reaches its total.  The
\* two amounts are taken to differ, so that no duplicate is involved.
C15_Original ==
    (/\ EnLaMismaOrden(LAMBDA s : ses[s].pc = "p_fin" /\ ses[s].estado = "APROBADO")
     /\ ses["s1"].monto # ses["s2"].monto) =>
        LET o == ordenes[OrdenDe("s1")]
            suma == Round2(SumaAprobados(pagos, o.id))
        IN  /\ o.total_pagado = <<suma>>
            /\ suma >= o.total => o.estado = "PAGADA"

(* ---------------------------------------------------------------------- *)
\* C19 (as stated): whatever the interleaving, the store never holds two
\* approved payments of one order with the same amount.
C19_Original ==
    \A d \in BagToSet(pagos) : d.estado = "APROBADO" => CopiesIn(d, pagos) = 1

====
